---- MODULE Spec2Model ----
(***************************************************************************)
(* Model of the integration layer's Coordinator (MasterAgent,              *)
(* src/master_agent.py) and Normalizer (DataNormalizer,                    *)
(* src/data_normalizer.py).                                                *)
(*                                                                         *)
(* Every handler is one action.  A handler is computed by an operator of   *)
(* the same name that returns a "run": the subsystem calls it made, the    *)
(* log entries it emitted, and whether it returned a value or raised.      *)
(*                                                                         *)
(* An exception is a chain <<e1, e2, ...>>: e1 is the raised exception and *)
(* Tail(chain) is the exception that was being handled when e1 was raised  *)
(* (Python's __context__).  e1.from is TRUE when e1 was raised with        *)
(* "raise ... from e", i.e. when Tail(chain) is also its __cause__.        *)
(*                                                                         *)
(* The collaborators MLModelManager, MessagingAdapter and HealthMonitor    *)
(* are imported, not defined, by the source: the outcome of each of their  *)
(* calls ("ok" or an exception class) is an input of the action.  A        *)
(* collaborator failure is an instance of a subclass of Exception.  The    *)
(* domain error classes are named as the raise statements name them.       *)
(***************************************************************************)
EXTENDS Integers, Sequences, FiniteSets, TLC

VARIABLES config, subsystems, phase, constructed, calls, log, outcome

vars == <<config, subsystems, phase, constructed, calls, log, outcome>>

----------------------------------------------------------------------------
(* Bounds and input sets *)

MaxLen == 3

Fields == {"x", "y"}

\* a raw record: every field maps to the length of its sequence
RawRecords == [Fields -> 1..MaxLen]

Exceptions == {"ValueError", "RuntimeError"}

Outcomes == {"ok"} \cup Exceptions

Absent == "<absent>"

ModelPaths == {"m0.bin", "m1.bin"}

Configs == [data : [normalize : BOOLEAN],
            models : [fallback_model : {"m0.bin", Absent}]]

\* classes of the error values handed to handle_error
ErrorKinds == {"DataProcessingError", "ModelPredictionError",
               "ProcessingError", "ValueError"}

Outputs == {"out_a", "out_b"}

Snapshots == {"healthy"}

NoValue == "None"

----------------------------------------------------------------------------
(* Exceptions and runs *)

Exc(kind) == <<[kind |-> kind, from |-> FALSE]>>

\* raise kind(...) from e
RaiseFrom(kind, e) == <<[kind |-> kind, from |-> TRUE]>> \o e

\* raise kind(...) inside "except Exception as e", without "from e"
RaiseWhileHandling(kind, e) == <<[kind |-> kind, from |-> FALSE]>> \o e

Cause(e) == IF e[1].from THEN Tail(e) ELSE <<>>

Context(e) == Tail(e)

Returned(cs, lg, v) ==
    [calls |-> cs, log |-> lg, status |-> "returned", value |-> v, error |-> <<>>]

Raised(cs, lg, e) ==
    [calls |-> cs, log |-> lg, status |-> "raised", value |-> NoValue, error |-> e]

\* one call on a subsystem: ret is "ok" or the class of the exception the
\* call raised, val the value it returned
Call(name, target, method, arg, ret, val) ==
    [name |-> name, target |-> target, method |-> method, arg |-> arg,
     ret |-> ret, val |-> val]

Entry(logger, level) == [logger |-> logger, level |-> level]

\* MasterAgent._log_error
log_error == <<Entry("MasterAgent", "error")>>

----------------------------------------------------------------------------
(* DataNormalizer *)

\* pd.DataFrame(raw_data): columns of unequal length cannot form a table
DataFrame(raw) ==
    IF \A f, g \in DOMAIN raw : raw[f] = raw[g]
    THEN [ok |-> TRUE, exc |-> "ok"]
    ELSE [ok |-> FALSE, exc |-> "ValueError"]

Table(raw, scaled) == [columns |-> DOMAIN raw, rows |-> raw, scaled |-> scaled]

\* normalize, re-raising the caught exception itself instead of wrapping it
normalize_unwrapped(cfg, raw, tf) ==
    LET df == DataFrame(raw) IN
    IF ~df.ok
    THEN Raised(<<>>, <<Entry("DataNormalizer", "error")>>, Exc(df.exc))
    ELSE IF cfg.normalize /\ tf # "ok"
    THEN Raised(<<>>, <<Entry("DataNormalizer", "error")>>, Exc(tf))
    ELSE Returned(<<>>, <<>>, Table(raw, cfg.normalize))

\* normalize, without the logger.error call of its except block
normalize_silent(cfg, raw, tf) ==
    LET df == DataFrame(raw) IN
    IF ~df.ok
    THEN Raised(<<>>, <<>>, RaiseFrom("NormalizationError", Exc(df.exc)))
    ELSE IF cfg.normalize /\ tf # "ok"
    THEN Raised(<<>>, <<>>, RaiseFrom("NormalizationError", Exc(tf)))
    ELSE Returned(<<>>, <<>>, Table(raw, cfg.normalize))

\* DataNormalizer.normalize; tf is the outcome of the per-column transform
normalize(cfg, raw, tf) ==
    LET df == DataFrame(raw) IN
    IF ~df.ok
    THEN Raised(<<>>, <<Entry("DataNormalizer", "error")>>,
                RaiseFrom("NormalizationError", Exc(df.exc)))
    ELSE IF cfg.normalize /\ tf # "ok"
    THEN Raised(<<>>, <<Entry("DataNormalizer", "error")>>,
                RaiseFrom("NormalizationError", Exc(tf)))
    ELSE Returned(<<>>, <<>>, Table(raw, cfg.normalize))

----------------------------------------------------------------------------
(* MasterAgent *)

Names == <<"data_normalizer", "ml_model_manager", "messaging_adapter", "health_monitor">>

NameSet == {Names[i] : i \in 1..Len(Names)}

\* the registry after the constructors before position k have run
RegistryUpTo(k, base) ==
    [n \in {Names[i] : i \in 1..k} |-> base + (CHOOSE i \in 1..k : Names[i] = n)]

\* MasterAgent._initialize_subsystems; failAt = 0: no constructor fails,
\* failAt = k: the k-th constructor raises exc
initialize_subsystems(failAt, exc, base) ==
    IF failAt = 0
    THEN [registry |-> RegistryUpTo(Len(Names), base), made |-> Len(Names),
          run |-> Returned(<<>>, <<>>, NoValue)]
    ELSE [registry |-> RegistryUpTo(failAt - 1, base), made |-> failAt - 1,
          run |-> Raised(<<>>, log_error,
                         RaiseWhileHandling("InitializationError", Exc(exc)))]

\* adapt, with an except block that logs and returns instead of raising
adapt_swallow(reg, predictions, input_data, gh, snap, ad, out) ==
    LET c1 == Call("health_monitor", reg["health_monitor"], "get_health", <<>>,
                   gh, snap)
        c2 == Call("messaging_adapter", reg["messaging_adapter"], "adapt",
                   <<predictions, snap, input_data>>, ad, out)
    IN  IF gh # "ok"
        THEN Returned(<<c1>>, log_error, NoValue)
        ELSE IF ad # "ok"
        THEN Returned(<<c1, c2>>, log_error, NoValue)
        ELSE Returned(<<c1, c2>>, <<>>, out)

\* adapt, without the _log_error call of its except block
adapt_nolog(reg, predictions, input_data, gh, snap, ad, out) ==
    LET c1 == Call("health_monitor", reg["health_monitor"], "get_health", <<>>,
                   gh, snap)
        c2 == Call("messaging_adapter", reg["messaging_adapter"], "adapt",
                   <<predictions, snap, input_data>>, ad, out)
    IN  IF gh # "ok"
        THEN Raised(<<c1>>, <<>>, RaiseFrom("AdaptationError", Exc(gh)))
        ELSE IF ad # "ok"
        THEN Raised(<<c1, c2>>, <<>>, RaiseFrom("AdaptationError", Exc(ad)))
        ELSE Returned(<<c1, c2>>, <<>>, out)

\* MasterAgent.adapt
adapt(reg, predictions, input_data, gh, snap, ad, out) ==
    LET c1 == Call("health_monitor", reg["health_monitor"], "get_health", <<>>,
                   gh, snap)
        c2 == Call("messaging_adapter", reg["messaging_adapter"], "adapt",
                   <<predictions, snap, input_data>>, ad, out)
    IN  IF gh # "ok"
        THEN Raised(<<c1>>, log_error, RaiseFrom("AdaptationError", Exc(gh)))
        ELSE IF ad # "ok"
        THEN Raised(<<c1, c2>>, log_error, RaiseFrom("AdaptationError", Exc(ad)))
        ELSE Returned(<<c1, c2>>, <<>>, out)

\* process_data, calling predict a second time when the first call fails
process_data_retry(cfg, reg, raw, tf, pr, gh, snap, ad, out) ==
    LET n  == normalize(cfg.data, raw, tf)
        c1 == Call("data_normalizer", reg["data_normalizer"], "normalize", <<raw>>,
                   IF n.status = "raised" THEN n.error[1].kind ELSE "ok", n.value)
        predictions == [of |-> n.value]
        c2 == Call("ml_model_manager", reg["ml_model_manager"], "predict", <<n.value>>,
                   pr, predictions)
        a  == adapt(reg, predictions, raw, gh, snap, ad, out)
    IN  IF n.status = "raised"
        THEN Raised(<<c1>>, n.log \o log_error, RaiseFrom("ProcessingError", n.error))
        ELSE IF pr # "ok"
        THEN Raised(<<c1, c2, c2>>, n.log \o log_error,
                    RaiseFrom("ProcessingError", Exc(pr)))
        ELSE IF a.status = "raised"
        THEN Raised(<<c1, c2>> \o a.calls, n.log \o a.log \o log_error,
                    RaiseFrom("ProcessingError", a.error))
        ELSE Returned(<<c1, c2>> \o a.calls, n.log \o a.log, a.value)

\* MasterAgent.process_data
process_data(cfg, reg, raw, tf, pr, gh, snap, ad, out) ==
    LET n  == normalize(cfg.data, raw, tf)
        c1 == Call("data_normalizer", reg["data_normalizer"], "normalize", <<raw>>,
                   IF n.status = "raised" THEN n.error[1].kind ELSE "ok", n.value)
        predictions == [of |-> n.value]
        c2 == Call("ml_model_manager", reg["ml_model_manager"], "predict", <<n.value>>,
                   pr, predictions)
        a  == adapt(reg, predictions, raw, gh, snap, ad, out)
    IN  IF n.status = "raised"
        THEN Raised(<<c1>>, n.log \o log_error, RaiseFrom("ProcessingError", n.error))
        ELSE IF pr # "ok"
        THEN Raised(<<c1, c2>>, n.log \o log_error,
                    RaiseFrom("ProcessingError", Exc(pr)))
        ELSE IF a.status = "raised"
        THEN Raised(<<c1, c2>> \o a.calls, n.log \o a.log \o log_error,
                    RaiseFrom("ProcessingError", a.error))
        ELSE Returned(<<c1, c2>> \o a.calls, n.log \o a.log, a.value)

\* MasterAgent.monitor
monitor(reg, mo, snap) ==
    LET c == Call("health_monitor", reg["health_monitor"], "monitor", <<>>, mo, snap)
    IN  IF mo # "ok"
        THEN Raised(<<c>>, log_error, RaiseFrom("MonitoringError", Exc(mo)))
        ELSE Returned(<<c>>, <<>>, snap)

\* MasterAgent.update_model
update_model(reg, new_model_path, up) ==
    LET c == Call("ml_model_manager", reg["ml_model_manager"], "update_model",
                  <<new_model_path>>, up, NoValue)
    IN  IF up # "ok"
        THEN Raised(<<c>>, log_error, RaiseFrom("ModelUpdateError", Exc(up)))
        ELSE Returned(<<c>>, <<>>, NoValue)

\* recovery, with an else branch that runs the normalizer's recovery hook
recovery_no_dispatch(cfg, reg, kind, rc, up) ==
    LET c == Call("data_normalizer", reg["data_normalizer"], "recover", <<>>,
                  rc, NoValue)
    IN  IF kind = "ModelPredictionError"
        THEN IF cfg.models.fallback_model = Absent
             THEN Raised(<<>>, <<>>, Exc("KeyError"))
             ELSE update_model(reg, cfg.models.fallback_model, up)
        ELSE IF rc # "ok" THEN Raised(<<c>>, <<>>, Exc(rc))
                          ELSE Returned(<<c>>, <<>>, NoValue)

\* the recovery branch of MasterAgent.handle_error (the body of its try,
\* after the error has been logged)
recovery(cfg, reg, kind, rc, up) ==
    IF kind = "DataProcessingError"
    THEN LET c == Call("data_normalizer", reg["data_normalizer"], "recover", <<>>,
                       rc, NoValue)
         IN  IF rc # "ok" THEN Raised(<<c>>, <<>>, Exc(rc))
                          ELSE Returned(<<c>>, <<>>, NoValue)
    ELSE IF kind = "ModelPredictionError"
    THEN IF cfg.models.fallback_model = Absent
         THEN Raised(<<>>, <<>>, Exc("KeyError"))
         ELSE update_model(reg, cfg.models.fallback_model, up)
    ELSE Returned(<<>>, <<>>, NoValue)

\* handle_error, letting the failure of the recovery action propagate as it is
handle_error_reraise(cfg, reg, kind, rc, up) ==
    LET r == recovery(cfg, reg, kind, rc, up)
    IN  IF r.status = "raised"
        THEN Raised(r.calls, log_error \o r.log, r.error)
        ELSE Returned(r.calls, log_error \o r.log, NoValue)

\* MasterAgent.handle_error
handle_error(cfg, reg, kind, rc, up) ==
    LET r == recovery(cfg, reg, kind, rc, up)
    IN  IF r.status = "raised"
        THEN Raised(r.calls, log_error \o r.log \o <<Entry("MasterAgent", "critical")>>,
                    RaiseWhileHandling("CriticalError", r.error))
        ELSE Returned(r.calls, log_error \o r.log, NoValue)

----------------------------------------------------------------------------
(* State machine *)

NoOutcome == [op |-> "none", input |-> <<>>, status |-> "none",
              value |-> NoValue, error |-> <<>>]

Done(op, input, run) ==
    /\ calls' = run.calls
    /\ log' = run.log
    /\ outcome' = [op |-> op, input |-> input, status |-> run.status,
                   value |-> run.value, error |-> run.error]

\* MasterAgent(config) has been called; __init__ has set config, the empty
\* registry and the logger, and is about to call _initialize_subsystems
Init ==
    /\ config \in Configs
    /\ subsystems = <<>>
    /\ phase = "constructing"
    /\ constructed = 0
    /\ calls = <<>>
    /\ log = <<>>
    /\ outcome = NoOutcome

\* __init__ runs _initialize_subsystems; when it raises, the constructor
\* raises and the caller never receives the object
Initialize ==
    /\ phase = "constructing"
    /\ \E failAt \in 0..Len(Names), exc \in Exceptions :
          LET i == initialize_subsystems(failAt, exc, constructed) IN
          /\ subsystems' = i.registry
          /\ constructed' = constructed + i.made
          /\ phase' = IF i.run.status = "raised" THEN "failed" ELSE "ready"
          /\ Done("__init__", <<failAt>>, i.run)
    /\ UNCHANGED config

ProcessData ==
    /\ phase = "ready"
    /\ \E raw \in RawRecords, tf, pr, gh, ad \in Outcomes,
          snap \in Snapshots, out \in Outputs :
          Done("process_data", <<>>,
               process_data(config, subsystems, raw, tf, pr, gh, snap, ad, out))
    /\ UNCHANGED <<config, subsystems, phase, constructed>>

Adapt ==
    /\ phase = "ready"
    /\ \E raw \in RawRecords, gh, ad \in Outcomes,
          snap \in Snapshots, out \in Outputs :
          Done("adapt", <<>>,
               adapt(subsystems, [of |-> Table(raw, FALSE)], raw, gh, snap, ad, out))
    /\ UNCHANGED <<config, subsystems, phase, constructed>>

Monitor ==
    /\ phase = "ready"
    /\ \E mo \in Outcomes, snap \in Snapshots :
          Done("monitor", <<>>, monitor(subsystems, mo, snap))
    /\ UNCHANGED <<config, subsystems, phase, constructed>>

\* update_model, replacing the registered model manager by a new instance
UpdateModel_reconstruct ==
    /\ phase = "ready"
    /\ \E path \in ModelPaths, up \in Outcomes :
          Done("update_model", <<path>>, update_model(subsystems, path, up))
    /\ subsystems' = [subsystems EXCEPT !["ml_model_manager"] = Len(Names) + 1]
    /\ constructed' = Len(Names) + 1
    /\ UNCHANGED <<config, phase>>

UpdateModel ==
    /\ phase = "ready"
    /\ \E path \in ModelPaths, up \in Outcomes :
          Done("update_model", <<path>>, update_model(subsystems, path, up))
    /\ UNCHANGED <<config, subsystems, phase, constructed>>

HandleError ==
    /\ phase = "ready"
    /\ \E kind \in ErrorKinds, rc, up \in Outcomes :
          Done("handle_error", <<kind>>,
               handle_error(config, subsystems, kind, rc, up))
    /\ UNCHANGED <<config, subsystems, phase, constructed>>

\* DataNormalizer.normalize called directly on the registered Normalizer
Normalize ==
    /\ phase = "ready"
    /\ \E raw \in RawRecords, tf \in Outcomes :
          Done("normalize", <<raw, tf>>, normalize(config.data, raw, tf))
    /\ UNCHANGED <<config, subsystems, phase, constructed>>

Next ==
    \/ Initialize
    \/ ProcessData
    \/ Adapt
    \/ Monitor
    \/ UpdateModel
    \/ HandleError
    \/ Normalize

Spec == Init /\ [][Next]_vars

----------------------------------------------------------------------------
(* Properties *)

Pipeline == <<"normalize", "predict", "get_health", "adapt">>

Methods(cs) == [i \in 1..Len(cs) |-> cs[i].method]

CallsOf(m) == {i \in 1..Len(calls) : calls[i].method = m}

FailedCalls == {i \in 1..Len(calls) : calls[i].ret # "ok"}

EntriesAt(level) == {i \in 1..Len(log) : log[i].level = level}

EntriesBy(logger) == {i \in 1..Len(log) : log[i].logger = logger}

Ragged(raw) == \E f, g \in DOMAIN raw : raw[f] # raw[g]

DomainErrors == {"NormalizationError", "InitializationError", "ProcessingError",
                 "AdaptationError", "MonitoringError", "ModelUpdateError",
                 "CriticalError"}

\* C1: a process_data call either returns the value that MessagingAdapter.adapt
\* produced, after all four subsystem calls succeeded, or raises ProcessingError
\* and returns no value; nothing else is observable.
C1_AllOrNothing ==
    outcome.op = "process_data" =>
        \/ /\ outcome.status = "returned"
           /\ outcome.error = <<>>
           /\ Methods(calls) = Pipeline
           /\ FailedCalls = {}
           /\ outcome.value = calls[Len(calls)].val
        \/ /\ outcome.status = "raised"
           /\ outcome.error[1].kind = "ProcessingError"
           /\ outcome.value = NoValue
           /\ FailedCalls # {}

\* a process_data call whose prediction step failed
C1_Witness ==
    /\ outcome.op = "process_data"
    /\ outcome.status = "raised"
    /\ Len(calls) = 2
    /\ calls[2].method = "predict"
    /\ calls[2].ret # "ok"

\* C2 (as stated): a data-processing error gives exactly one recover() call and
\* no update_model call; a model-prediction error gives exactly one update_model
\* call, with config.models.fallback_model, and no recover() call; any other
\* error gives no subsystem call.
C2_Original ==
    outcome.op = "handle_error" =>
        LET kind == outcome.input[1] IN
        /\ kind = "DataProcessingError" =>
              /\ Cardinality(CallsOf("recover")) = 1
              /\ CallsOf("update_model") = {}
        /\ kind = "ModelPredictionError" =>
              /\ Cardinality(CallsOf("update_model")) = 1
              /\ \A i \in CallsOf("update_model") :
                    calls[i].arg = <<config.models.fallback_model>>
              /\ CallsOf("recover") = {}
        /\ kind \notin {"DataProcessingError", "ModelPredictionError"} =>
              calls = <<>>

\* C2 (amended): as stated, except that a model-prediction error gives the one
\* update_model call only when the configuration holds models.fallback_model;
\* when it does not, handle_error makes no subsystem call.
C2_Dispatch ==
    outcome.op = "handle_error" =>
        LET kind == outcome.input[1] IN
        /\ kind = "DataProcessingError" =>
              /\ Cardinality(CallsOf("recover")) = 1
              /\ CallsOf("update_model") = {}
        /\ (kind = "ModelPredictionError" /\ config.models.fallback_model # Absent) =>
              /\ Cardinality(CallsOf("update_model")) = 1
              /\ \A i \in CallsOf("update_model") :
                    calls[i].arg = <<config.models.fallback_model>>
              /\ CallsOf("recover") = {}
        /\ (kind = "ModelPredictionError" /\ config.models.fallback_model = Absent) =>
              calls = <<>>
        /\ kind \notin {"DataProcessingError", "ModelPredictionError"} =>
              calls = <<>>

\* handle_error has been given a model-prediction error and has swapped in the
\* fallback model
C2_Witness ==
    /\ outcome.op = "handle_error"
    /\ outcome.input[1] = "ModelPredictionError"
    /\ Len(calls) = 1
    /\ calls[1].method = "update_model"
    /\ calls[1].arg = <<"m0.bin">>

\* C3: a failed initialization ends with InitializationError and leaves the
\* registry holding all four subsystems or none; a successful one leaves the
\* four; no operation runs on a Coordinator whose initialization failed.
C3_InitAllOrNothing ==
    /\ phase = "failed" =>
          /\ outcome.op = "__init__"
          /\ outcome.status = "raised"
          /\ outcome.error[1].kind = "InitializationError"
          /\ DOMAIN subsystems \in {{}, NameSet}
    /\ phase = "ready" => DOMAIN subsystems = NameSet

\* C4: handle_error raises exactly when its recovery action fails (recover()
\* raises, update_model fails, or the fallback path is missing); it then raises
\* CriticalError and logs one critical entry; otherwise it returns and logs no
\* critical entry.
C4_CriticalOnly ==
    outcome.op = "handle_error" =>
        LET kind == outcome.input[1]
            recoveryFailed ==
                \/ FailedCalls # {}
                \/ kind = "ModelPredictionError" /\ config.models.fallback_model = Absent
        IN  /\ recoveryFailed <=> outcome.status = "raised"
            /\ outcome.status = "raised" =>
                  /\ outcome.error[1].kind = "CriticalError"
                  /\ Cardinality(EntriesAt("critical")) = 1
            /\ outcome.status # "raised" =>
                  /\ outcome.status = "returned"
                  /\ EntriesAt("critical") = {}

\* handle_error escalates because the fallback model could not be installed
C4_Witness ==
    /\ outcome.op = "handle_error"
    /\ outcome.input[1] = "ModelPredictionError"
    /\ outcome.status = "raised"
    /\ Len(outcome.error) = 3
    /\ outcome.error[2].kind = "ModelUpdateError"

\* C5: every domain error that is raised has, as its explicit cause, the
\* exception caught at the boundary that raised it.
C5_CauseChained ==
    outcome.status = "raised" =>
        \A i \in 1..Len(outcome.error) :
            outcome.error[i].kind \in DomainErrors =>
                /\ i < Len(outcome.error)
                /\ outcome.error[i].from

\* C6: the direct cause of the ProcessingError names the failing step:
\* NormalizationError for normalize, AdaptationError for get_health and adapt,
\* the model manager's own exception for predict.
C6_CauseNamesStep ==
    (outcome.op = "process_data" /\ outcome.status = "raised") =>
        LET e    == outcome.error
            last == calls[Len(calls)]
        IN  /\ e[1].kind = "ProcessingError"
            /\ Len(Cause(e)) > 0
            /\ last.method = "normalize" => Cause(e)[1].kind = "NormalizationError"
            /\ last.method \in {"get_health", "adapt"} =>
                  Cause(e)[1].kind = "AdaptationError"
            /\ last.method = "predict" => Cause(e) = Exc(last.ret)

\* process_data has failed on the ragged input x of length 2, y of length 3
C6_Witness ==
    /\ outcome.op = "process_data"
    /\ outcome.status = "raised"
    /\ calls[1].arg = <<[x |-> 2, y |-> 3]>>
    /\ Len(outcome.error) = 3
    /\ outcome.error[2].kind = "NormalizationError"

\* C7 (as stated): the calls of one process_data call are a prefix of the
\* pipeline, every call before the last succeeded, a raising process_data has
\* its failing call last, and the full sequence is made exactly when
\* process_data returns a result.
C7_Original ==
    outcome.op = "process_data" =>
        /\ Len(calls) <= Len(Pipeline)
        /\ \A i \in 1..Len(calls) : calls[i].method = Pipeline[i]
        /\ \A i \in 1..(Len(calls) - 1) : calls[i].ret = "ok"
        /\ outcome.status = "raised" => calls[Len(calls)].ret # "ok"
        /\ Methods(calls) = Pipeline <=> outcome.status = "returned"

\* C7 (amended): as stated, except that process_data returns a result exactly
\* when the full sequence is made and its last call succeeds too.
C7_PrefixOfPipeline ==
    outcome.op = "process_data" =>
        /\ Len(calls) <= Len(Pipeline)
        /\ \A i \in 1..Len(calls) : calls[i].method = Pipeline[i]
        /\ \A i \in 1..(Len(calls) - 1) : calls[i].ret = "ok"
        /\ outcome.status = "raised" => calls[Len(calls)].ret # "ok"
        /\ (Methods(calls) = Pipeline /\ FailedCalls = {})
              <=> outcome.status = "returned"

\* process_data has made all four calls and the last one has failed
C7_Witness ==
    /\ outcome.op = "process_data"
    /\ outcome.status = "raised"
    /\ Methods(calls) = Pipeline
    /\ calls[4].ret # "ok"

\* C8: once initialization has succeeded, no step changes the configuration or
\* the registry, and no subsystem is constructed again.
C8_RegistryFrozen ==
    [][phase = "ready" =>
          /\ phase' = "ready"
          /\ config' = config
          /\ subsystems' = subsystems
          /\ constructed' = constructed
          /\ DOMAIN subsystems' = NameSet
          /\ \A n \in NameSet : subsystems'[n] \in 1..Len(Names)]_vars

\* update_model has failed on an initialized Coordinator
C8_Witness ==
    /\ phase = "ready"
    /\ outcome.op = "update_model"
    /\ outcome.status = "raised"
    /\ DOMAIN subsystems = NameSet

\* C9: a failing normalize raises NormalizationError and logs exactly one
\* error entry; a normalize that returns a table logs nothing; ragged input
\* makes it fail.
C9_NormalizeLogsOnce ==
    /\ outcome.op = "normalize" =>
          /\ Ragged(outcome.input[1]) => outcome.status = "raised"
          /\ outcome.status = "raised" =>
                /\ outcome.error[1].kind = "NormalizationError"
                /\ log = <<Entry("DataNormalizer", "error")>>
          /\ outcome.status # "raised" =>
                /\ outcome.status = "returned"
                /\ log = <<>>
    /\ outcome.op = "process_data" =>
          Cardinality(EntriesBy("DataNormalizer")) =
              IF calls[1].ret = "ok" THEN 0 ELSE 1

\* normalize has failed on ragged input
C9_Witness ==
    /\ outcome.op = "normalize"
    /\ Ragged(outcome.input[1])
    /\ outcome.status = "raised"
    /\ Len(log) = 1

\* C10: a failing process_data call logs two error entries when normalize
\* fails (Normalizer, then process_data), two when get_health or adapt fails
\* (adapt, then process_data), one when predict fails; a successful call logs
\* none.
C10_LogCount ==
    outcome.op = "process_data" =>
        LET last == calls[Len(calls)] IN
        /\ EntriesAt("error") = 1..Len(log)
        /\ outcome.status = "returned" => log = <<>>
        /\ (outcome.status = "raised" /\ last.method = "normalize") =>
              log = <<Entry("DataNormalizer", "error"), Entry("MasterAgent", "error")>>
        /\ (outcome.status = "raised" /\ last.method \in {"get_health", "adapt"}) =>
              log = <<Entry("MasterAgent", "error"), Entry("MasterAgent", "error")>>
        /\ (outcome.status = "raised" /\ last.method = "predict") =>
              log = <<Entry("MasterAgent", "error")>>

\* process_data has failed in HealthMonitor.get_health
C10_Witness ==
    /\ outcome.op = "process_data"
    /\ outcome.status = "raised"
    /\ Len(calls) = 3
    /\ calls[3].method = "get_health"
    /\ Len(log) = 2

====
